---- MODULE Spec2Model ----
(***************************************************************************)
(* State machine of src/src/app/lib/realtimeConnection.ts:                 *)
(* createRealtimeConnection, the timers and handlers it installs, and the  *)
(* reconnection loop that re-enters it.                                    *)
(*                                                                         *)
(* Every call of createRealtimeConnection gets a number in Calls; call 0   *)
(* is the caller's initial call, the others are made by reconnection       *)
(* loops.  The RTCPeerConnection and the RTCDataChannel created by call c  *)
(* (lines 21 and 32) are both named by the number c.  pc and dc are const  *)
(* bindings, so inside call c and its closures they name these two objects *)
(* for good (see AssignmentThrows).                                        *)
(***************************************************************************)
EXTENDS Integers, Sequences, FiniteSets, TLC

\* Bounds of the model.
MaxCalls == 3        \* calls of createRealtimeConnection explored (0 .. MaxCalls-1)
MaxAttempts == 2     \* largest options.reconnectAttempts explored
MaxSessionCalls == 2 \* calls explored where timers and handlers are exercised too
MaxSent == 1         \* messages put on the data channels, all channels together
MaxTicks == 2        \* ticks of the quality samplers, all calls together
MaxReports == 1      \* reports in one statistics read
MaxMessages == 2     \* inbound messages delivered, all channels together

Calls == 0 .. (MaxCalls - 1)

VARIABLES
  options,     \* the ConnectionOptions argument (lines 5-10, 19), shared by all calls
  openaiBound, \* whether the free name openai of line 111 is bound in the global scope
  stage,       \* per call: the await it is suspended at, or how it settled
  error,       \* per call: where it threw ("none" if nowhere)
  response,    \* per call: the signaling response awaiting line 55
  iceState,    \* per peer connection: pc.iceConnectionState
  readyState,  \* per data channel: dc.readyState
  obs,         \* per call: the timers and handlers the call has installed
  handle,      \* per call: <<pc, dc>> of the object returned at line 174, <<>> before
  loops,       \* the runs of the while loop of lines 88-103, in start order:
               \* owner (the call whose handler runs it), attempts, the delay
               \* last started, phase, and child (the call last made)
  wire,        \* per data channel: the messages dc.send has put on it, in order
  dropped,     \* whether a sender has found its channel not open and let a message go
  pending,     \* per call: the ticks whose pc.getStats() promise (line 115) is unsettled
  ticks,       \* per call: the ticks its sampler timer (line 114) has fired
  monitor,     \* per call: the series of its PerformanceMonitor (line 109)
  performance, \* per call: the scores given to its AdaptiveOptimizer (line 110)
  vad,         \* per call: <<>>, or the last setVADEnabled call on its processor:
               \* the qualityThreshold it came from and the value passed
  delivered,   \* per data channel: the message events the transport has delivered
  handled,     \* per data channel: the messages the wrapped handler was invoked with
  uncaught     \* per data channel: the errors thrown out of its onmessage handler

control == <<options, openaiBound, stage, error, response, iceState, readyState,
             obs, handle, loops>>

senders == <<wire, dropped>>

sampling == <<pending, ticks, monitor, performance, vad>>

inbound == <<delivered, handled, uncaught>>

observers == <<senders, sampling, inbound>>

vars == <<control, observers>>

----------------------------------------------------------------------------
\* Values

Stages == {"unused", "negotiate", "setRemoteDescription", "resolved", "rejected"}

\* Where a rejected call threw: lines 29-49, 55, 61-62 or 111.
Errors == {"none", "negotiate", "setRemoteDescription", "processAudioStream", "openai"}

\* A response of the signaling endpoint: its HTTP status, and whether its text
\* is a session description the transport accepts.
Responses == [status : {200, 500}, body : {"sdp", "malformed"}]

NoResponse == [status |-> 0, body |-> "none"]

\* Response.ok: the status is in the range 200-299.  The code never reads it.
Ok(r) == r.status \in 200 .. 299

NoObservers == [audioProcessed |-> FALSE, heartbeat |-> FALSE, reconnect |-> FALSE,
                sampler |-> FALSE, latency |-> FALSE, context |-> FALSE]

\* The next call number not yet used, MaxCalls when all are.
NextCall == Cardinality({c \in Calls : stage[c] # "unused"})

InFlight(c) == stage[c] \in {"negotiate", "setRemoteDescription"}

\* The remote description has been applied to the peer connection of call c.
RemoteSet(c) ==
  \/ stage[c] = "resolved"
  \/ stage[c] = "rejected" /\ error[c] \in {"processAudioStream", "openai"}

----------------------------------------------------------------------------
\* The reconnection loop, lines 88-103

\* The loops that await call c at line 91 (one at most).
Awaiting(c) == {l \in DOMAIN loops : loops[l].phase = "await" /\ loops[l].child = c}

\* Lines 96-98, reached when the await of line 91 resolved.  pc is the const
\* binding of line 21: the assignment of line 96 throws a TypeError inside the
\* try block, so lines 97-98 are not reached and the catch of line 99 runs.
AssignmentThrows == TRUE

\* Line 101: the 1000 ms the attempt counter is multiplied with.
BaseDelay == 1000

\* Lines 91-101: the loops after call c settled (ok: it resolved).  The catch
\* block counts the attempt and starts the delay of 1000 * attempts ms.
LoopsAfter(c, ok) ==
  [l \in DOMAIN loops |->
     IF l \in Awaiting(c)
       THEN IF ok /\ ~AssignmentThrows
              THEN [loops[l] EXCEPT !.phase = "reconnected"]
              ELSE [loops[l] EXCEPT !.attempts = @ + 1, !.phase = "backoff",
                                    !.delay = BaseDelay * (loops[l].attempts + 1)]
       ELSE loops[l]]

\* EarlyObservers with the connectivity handler installed whatever the bound.
EarlyObserversWithReconnect ==
  [NoObservers EXCEPT !.audioProcessed = options.enableConcurrentProcessing,
                      !.heartbeat = options.heartbeatInterval # 0,
                      !.reconnect = TRUE]

\* EarlyObservers with the heartbeat timer started whatever the interval.
EarlyObserversWithHeartbeat ==
  [NoObservers EXCEPT !.audioProcessed = options.enableConcurrentProcessing,
                      !.heartbeat = TRUE,
                      !.reconnect = options.reconnectAttempts # 0]

\* Lines 64-106: what is installed before line 111.
EarlyObservers ==
  [NoObservers EXCEPT !.audioProcessed = options.enableConcurrentProcessing,
                      !.heartbeat = options.heartbeatInterval # 0,
                      !.reconnect = options.reconnectAttempts # 0]

\* Reject as it would be with the timers and handlers of lines 64-106 set up
\* ahead of the awaits.
RejectLeavingObservers(c, where) ==
  /\ stage' = [stage EXCEPT ![c] = "rejected"]
  /\ error' = [error EXCEPT ![c] = where]
  /\ loops' = LoopsAfter(c, FALSE)
  /\ obs' = [obs EXCEPT ![c] = EarlyObservers]
  /\ UNCHANGED handle

\* Call c rejects at `where`; the loop awaiting it goes to its catch block.
Reject(c, where) ==
  /\ stage' = [stage EXCEPT ![c] = "rejected"]
  /\ error' = [error EXCEPT ![c] = where]
  /\ loops' = LoopsAfter(c, FALSE)
  /\ UNCHANGED <<obs, handle>>

\* Lines 64-174, which run without suspension once the last await has resolved.
Attach(c) ==
  IF openaiBound
    THEN /\ obs' = [obs EXCEPT ![c] = [EarlyObservers EXCEPT !.sampler = TRUE,
                                                             !.latency = TRUE,
                                                             !.context = TRUE]]
         /\ handle' = [handle EXCEPT ![c] = <<c, c>>]
         /\ stage' = [stage EXCEPT ![c] = "resolved"]
         /\ loops' = LoopsAfter(c, TRUE)
         /\ UNCHANGED error
    ELSE \* line 111 reads the unbound name openai: ReferenceError
         /\ obs' = [obs EXCEPT ![c] = EarlyObservers]
         /\ stage' = [stage EXCEPT ![c] = "rejected"]
         /\ error' = [error EXCEPT ![c] = "openai"]
         /\ loops' = LoopsAfter(c, FALSE)
         /\ UNCHANGED handle

----------------------------------------------------------------------------
\* createRealtimeConnection, one action per suspension point

\* Lines 29-49.  The awaits of lines 29, 34, 35, 40 and 49 follow one another
\* and touch only objects the call has just created, so they are taken in one
\* step.  Here one of them rejects: media acquisition (29), the local
\* description (34-35) or fetch on a network failure (40).
NegotiateFails(c) ==
  /\ stage[c] = "negotiate"
  /\ Reject(c, "negotiate")
  /\ UNCHANGED <<options, openaiBound, response, iceState, readyState>>
  /\ UNCHANGED observers

\* Lines 29-55: the response r arrives.  fetch resolves for every HTTP status,
\* and the text is handed to setRemoteDescription whatever the status.
Negotiate(c, r) ==
  /\ stage[c] = "negotiate"
  /\ response' = [response EXCEPT ![c] = r]
  /\ stage' = [stage EXCEPT ![c] = "setRemoteDescription"]
  /\ UNCHANGED <<options, openaiBound, error, iceState, readyState, obs, handle, loops>>
  /\ UNCHANGED observers

\* Lines 55-62 settle.  The transport rejects a text that is no session
\* description (line 55); with enableConcurrentProcessing the second media
\* acquisition and processAudioStream (lines 61-62) are awaited next and may
\* reject (processorOk = FALSE); they touch only objects of this call, so the
\* three awaits are taken in one step.  Lines 64-174 follow without suspension.
SetRemoteDescription(c, processorOk) ==
  /\ stage[c] = "setRemoteDescription"
  /\ options.enableConcurrentProcessing \/ processorOk
  /\ response' = [response EXCEPT ![c] = NoResponse]
  /\ IF response[c].body # "sdp"
       THEN Reject(c, "setRemoteDescription")
       ELSE IF ~processorOk
              THEN Reject(c, "processAudioStream")
              ELSE Attach(c)
  /\ UNCHANGED <<options, openaiBound, iceState, readyState>>
  /\ UNCHANGED observers

----------------------------------------------------------------------------
\* Connectivity

IceTransitions ==
  {<<"new", "connected">>, <<"connected", "disconnected">>,
   <<"disconnected", "connected">>}

\* IceConnectionStateChange with a handler that does not look at the state.
IceConnectionStateChangeAnyState(c, s, cap) ==
  /\ RemoteSet(c)
  /\ <<iceState[c], s>> \in IceTransitions
  /\ iceState' = [iceState EXCEPT ![c] = s]
  /\ IF obs[c].reconnect /\ 0 < options.reconnectAttempts
       THEN /\ NextCall < cap
            /\ stage' = [stage EXCEPT ![NextCall] = "negotiate"]
            /\ loops' = Append(loops, [owner |-> c, attempts |-> 0, delay |-> 0,
                                       phase |-> "await", child |-> NextCall])
       ELSE UNCHANGED <<stage, loops>>
  /\ UNCHANGED <<options, openaiBound, error, response, readyState, obs, handle>>
  /\ UNCHANGED observers

\* Lines 86-91: the transport reports a new connectivity state of peer
\* connection c.  The handler installed by call c reads the state and, on
\* "disconnected", sets attempts to 0 and tests the loop condition of line 89;
\* the first pass calls createRealtimeConnection (suspended at line 29).
\* cap bounds the calls explored.  The states checking, completed and failed
\* are left out: the handler tells "disconnected" from the rest and nothing
\* more.
IceConnectionStateChange(c, s, cap) ==
  /\ RemoteSet(c)
  /\ <<iceState[c], s>> \in IceTransitions
  /\ iceState' = [iceState EXCEPT ![c] = s]
  /\ IF obs[c].reconnect /\ s = "disconnected" /\ 0 < options.reconnectAttempts
       THEN /\ NextCall < cap
            /\ stage' = [stage EXCEPT ![NextCall] = "negotiate"]
            /\ loops' = Append(loops, [owner |-> c, attempts |-> 0, delay |-> 0,
                                       phase |-> "await", child |-> NextCall])
       ELSE UNCHANGED <<stage, loops>>
  /\ UNCHANGED <<options, openaiBound, error, response, readyState, obs, handle>>
  /\ UNCHANGED observers

\* Lines 101 and 89: the delay has passed; the loop tests its bound and either
\* calls createRealtimeConnection again or ends.
BackoffElapsed(l, cap) ==
  /\ loops[l].phase = "backoff"
  /\ IF loops[l].attempts < options.reconnectAttempts
       THEN /\ NextCall < cap
            /\ stage' = [stage EXCEPT ![NextCall] = "negotiate"]
            /\ loops' = [loops EXCEPT ![l].phase = "await", ![l].child = NextCall]
       ELSE /\ loops' = [loops EXCEPT ![l].phase = "exhausted"]
            /\ UNCHANGED stage
  /\ UNCHANGED <<options, openaiBound, error, response, iceState, readyState, obs,
                 handle>>
  /\ UNCHANGED observers

\* The data channel of call c opens once its transport is connected.
DataChannelOpen(c) ==
  /\ readyState[c] = "connecting"
  /\ iceState[c] = "connected"
  /\ readyState' = [readyState EXCEPT ![c] = "open"]
  /\ UNCHANGED <<options, openaiBound, stage, error, response, iceState, obs, handle,
                 loops>>
  /\ UNCHANGED observers

\* The caller closes the session through the object returned to it (line 174):
\* pc.close() on its peer connection, which closes the data channel with it.
\* Only call 0 returns to the caller; the loop drops what its calls return.
CloseSession ==
  /\ handle[0] # <<>>
  /\ iceState[handle[0][1]] # "closed"
  /\ iceState' = [iceState EXCEPT ![handle[0][1]] = "closed"]
  /\ readyState' = [readyState EXCEPT ![handle[0][2]] = "closed"]
  /\ UNCHANGED <<options, openaiBound, stage, error, response, obs, handle, loops>>
  /\ UNCHANGED observers

----------------------------------------------------------------------------
\* Outbound control messages

RECURSIVE SumLen(_, _)
\* The lengths of the sequences f[c], c in S, added up.
SumLen(f, S) ==
  IF S = {} THEN 0
  ELSE LET c == CHOOSE x \in S : TRUE IN Len(f[c]) + SumLen(f, S \ {c})

\* Messages put on the data channels so far.
Outbound == SumLen(wire, Calls)

\* Send without the readyState test.
SendUnguarded(c, type) ==
  /\ wire' = [wire EXCEPT ![c] = Append(@, type)]
  /\ UNCHANGED dropped

\* Lines 65-71, 78-80, 155-161 and 165-171: a message of the given type is
\* put on the data channel of call c if the channel is open, and is let go
\* otherwise.
Send(c, type) ==
  IF readyState[c] = "open"
    THEN /\ wire' = [wire EXCEPT ![c] = Append(@, type)]
         /\ UNCHANGED dropped
    ELSE /\ dropped' = TRUE
         /\ UNCHANGED wire

\* Lines 77-81: the heartbeat timer of call c fires.
HeartbeatTick(c) ==
  /\ obs[c].heartbeat
  /\ Outbound < MaxSent
  /\ Send(c, "heartbeat")
  /\ UNCHANGED <<control, sampling, inbound>>

\* Lines 64-72: the processor of call c emits audioProcessed.
AudioProcessed(c) ==
  /\ obs[c].audioProcessed
  /\ Outbound < MaxSent
  /\ Send(c, "audio_data")
  /\ UNCHANGED <<control, sampling, inbound>>

\* Lines 154-162: the context system of call c emits context-updated.
ContextUpdated(c) ==
  /\ obs[c].context
  /\ Outbound < MaxSent
  /\ Send(c, "context_update")
  /\ UNCHANGED <<control, sampling, inbound>>

\* Lines 164-172: the context system of call c emits context-alert.
ContextAlert(c) ==
  /\ obs[c].context
  /\ Outbound < MaxSent
  /\ Send(c, "context_alert")
  /\ UNCHANGED <<control, sampling, inbound>>

----------------------------------------------------------------------------
\* The quality sampler, lines 113-137

\* A field of a statistics report: <<>> when the report has none, <<n>> otherwise.
Fields == {<<>>, <<-1>>, <<0>>, <<3>>}

Reports == [type : {"inbound-rtp", "outbound-rtp"}, packetsLost : Fields,
            packetsReceived : {<<>>, <<0>>, <<2>>}]

RECURSIVE SeqsUpTo(_, _)
\* The sequences over S of length n at most.
SeqsUpTo(S, n) ==
  IF n = 0 THEN {<<>>}
  ELSE LET shorter == SeqsUpTo(S, n - 1)
       IN shorter \cup {Append(q, x) : q \in shorter, x \in S}

\* What pc.getStats() may resolve with.
StatsReports == SeqsUpTo(Reports, MaxReports)

\* Lines 121-122: field || 0.
OrZero(field) == IF field = <<>> THEN 0 ELSE field[1]

RECURSIVE Accumulate(_, _)
\* Lines 116-124: <<packetsLost, packetsReceived>> after stats.forEach.
Accumulate(stats, acc) ==
  IF stats = <<>> THEN acc
  ELSE LET report == Head(stats)
       IN Accumulate(Tail(stats),
            IF report.type = "inbound-rtp"
              THEN <<acc[1] + OrZero(report.packetsLost),
                     acc[2] + OrZero(report.packetsReceived)>>
              ELSE acc)

\* Lines 116-127: the quality of a statistics read, as the fraction num/den.
Quality(stats) ==
  LET packetsLost == Accumulate(stats, <<0, 0>>)[1]
      packetsReceived == Accumulate(stats, <<0, 0>>)[2]
  IN IF packetsReceived # 0
       THEN [num |-> packetsReceived - packetsLost, den |-> packetsReceived]
       ELSE [num |-> 1, den |-> 1]

NoMetrics == [connectionQuality |-> <<>>, responseLatency |-> <<>>]

\* monitor.recordMetric(name, value): the value is appended to the named series.
RecordMetric(metrics, name, value) == [metrics EXCEPT ![name] = Append(@, value)]

\* qualityThreshold values adjustParameters may return, in tenths.
QualityThresholds == {7, 8}

\* Line 134: the 0.7 the threshold is compared with, in tenths.
VadThreshold == 7

\* The argument of setVADEnabled with >= in the place of >.
VadEnabledFromThreshold(qualityThreshold) == qualityThreshold >= VadThreshold

\* Line 134: the argument of setVADEnabled, config.qualityThreshold > 0.7.
VadEnabled(qualityThreshold) == qualityThreshold > VadThreshold

RECURSIVE Sum(_, _)
\* The numbers f[c], c in S, added up.
Sum(f, S) ==
  IF S = {} THEN 0
  ELSE LET c == CHOOSE x \in S : TRUE IN f[c] + Sum(f, S \ {c})

\* Ticks fired so far.
Ticks == Sum(ticks, Calls)

\* Lines 114-115: the sampler timer of call c fires and starts a statistics read.
SamplerTick(c) ==
  /\ obs[c].sampler
  /\ Ticks < MaxTicks
  /\ ticks' = [ticks EXCEPT ![c] = @ + 1]
  /\ pending' = [pending EXCEPT ![c] = @ \cup {ticks[c] + 1}]
  /\ UNCHANGED <<control, senders, inbound, monitor, performance, vad>>

\* Lines 115-136: the statistics read of tick t resolves with stats; the
\* optimizer answers with qualityThreshold.
StatsResolved(c, t, stats, qualityThreshold) ==
  /\ t \in pending[c]
  /\ pending' = [pending EXCEPT ![c] = @ \ {t}]
  /\ monitor' = [monitor EXCEPT ![c] =
                   RecordMetric(@, "connectionQuality",
                                [tick |-> t, score |-> Quality(stats)])]
  /\ performance' = [performance EXCEPT ![c] = Append(@, Quality(stats))]
  /\ vad' = [vad EXCEPT ![c] =
               IF options.enableConcurrentProcessing
                 THEN <<[qualityThreshold |-> qualityThreshold,
                         enabled |-> VadEnabled(qualityThreshold)]>>
                 ELSE @]
  /\ UNCHANGED <<control, senders, inbound, ticks>>

----------------------------------------------------------------------------
\* The latency monitor, lines 139-145

\* Line 145: dc.onmessage of the channel created at line 32, which nothing
\* has assigned before the wrapper is built around it.
OriginalHandler == "null"

Messages == SumLen(delivered, Calls)

\* Lines 140-145: the transport delivers message m on the data channel of call
\* c.  Calling originalHandler when it is null throws a TypeError out of the
\* wrapper, before line 144 is reached.
Message(c, m) ==
  /\ readyState[c] = "open"
  /\ Messages < MaxMessages
  /\ m = Messages + 1
  /\ delivered' = [delivered EXCEPT ![c] = Append(@, m)]
  /\ IF obs[c].latency
       THEN IF OriginalHandler = "null"
              THEN /\ uncaught' = [uncaught EXCEPT ![c] = @ + 1]
                   /\ UNCHANGED <<handled, monitor>>
              ELSE /\ handled' = [handled EXCEPT ![c] = Append(@, m)]
                   /\ monitor' = [monitor EXCEPT ![c] =
                                    RecordMetric(@, "responseLatency", m)]
                   /\ UNCHANGED uncaught
       ELSE UNCHANGED <<handled, monitor, uncaught>>
  /\ UNCHANGED <<control, senders, pending, ticks, performance, vad>>

----------------------------------------------------------------------------

Init ==
  /\ options \in [enableConcurrentProcessing : BOOLEAN,
                  reconnectAttempts : 0 .. MaxAttempts,
                  heartbeatInterval : {0, 1000}]
  /\ openaiBound \in BOOLEAN
  /\ stage = [c \in Calls |-> IF c = 0 THEN "negotiate" ELSE "unused"]
  /\ error = [c \in Calls |-> "none"]
  /\ response = [c \in Calls |-> NoResponse]
  /\ iceState = [c \in Calls |-> "new"]
  /\ readyState = [c \in Calls |-> "connecting"]
  /\ obs = [c \in Calls |-> NoObservers]
  /\ handle = [c \in Calls |-> <<>>]
  /\ loops = <<>>
  /\ wire = [c \in Calls |-> <<>>]
  /\ dropped = FALSE
  /\ pending = [c \in Calls |-> {}]
  /\ ticks = [c \in Calls |-> 0]
  /\ monitor = [c \in Calls |-> NoMetrics]
  /\ performance = [c \in Calls |-> <<>>]
  /\ vad = [c \in Calls |-> <<>>]
  /\ delivered = [c \in Calls |-> <<>>]
  /\ handled = [c \in Calls |-> <<>>]
  /\ uncaught = [c \in Calls |-> 0]

\* createRealtimeConnection, connectivity and the reconnection loop.
Establishing(cap) ==
  \/ \E c \in Calls : NegotiateFails(c)
  \/ \E c \in Calls, r \in Responses : Negotiate(c, r)
  \/ \E c \in Calls, processorOk \in BOOLEAN : SetRemoteDescription(c, processorOk)
  \/ \E c \in Calls, s \in {"connected", "disconnected"} :
       IceConnectionStateChange(c, s, cap)
  \/ \E l \in DOMAIN loops : BackoffElapsed(l, cap)

\* Establishing, the data channels opening and the caller closing the session.
Control(cap) ==
  \/ Establishing(cap)
  \/ \E c \in Calls : DataChannelOpen(c)
  \/ CloseSession

Next == Control(MaxCalls)

Spec == Init /\ [][Next]_vars

\* The senders of control messages on top of Control.
NextSend ==
  \/ Control(MaxSessionCalls)
  \/ \E c \in Calls : HeartbeatTick(c)
  \/ \E c \in Calls : AudioProcessed(c)
  \/ \E c \in Calls : ContextUpdated(c)
  \/ \E c \in Calls : ContextAlert(c)

SpecSend == Init /\ [][NextSend]_vars

\* The quality sampler on top of Control.
NextSampler ==
  \/ Control(MaxSessionCalls)
  \/ \E c \in Calls : SamplerTick(c)
  \/ \E c \in Calls, t \in 1 .. MaxTicks, stats \in StatsReports,
        qualityThreshold \in QualityThresholds :
       StatsResolved(c, t, stats, qualityThreshold)

SpecSampler == Init /\ [][NextSampler]_vars

\* The optimizer's write-back on top of Establishing: the sampler over
\* statistics reads that carry no report.
NextVad ==
  \/ Establishing(MaxSessionCalls)
  \/ \E c \in Calls : SamplerTick(c)
  \/ \E c \in Calls, t \in 1 .. MaxTicks, qualityThreshold \in QualityThresholds :
       StatsResolved(c, t, <<>>, qualityThreshold)

SpecVad == Init /\ [][NextVad]_vars

\* Inbound messages on top of Control.
NextInbound ==
  \/ Control(MaxSessionCalls)
  \/ \E c \in Calls, m \in 1 .. MaxMessages : Message(c, m)

SpecInbound == Init /\ [][NextInbound]_vars

----------------------------------------------------------------------------
\* Properties

\* The calls made by reconnection loops.
ReconnectCalls == {c \in Calls : c # 0 /\ stage[c] # "unused"}

\* C1: with reconnectAttempts = k and every establish attempt failing, the
\* reconnection logic makes at most k establish attempts in total, whatever
\* the number of connectivity-lost events.
C1_AtMostKAttempts ==
  (stage[0] = "resolved" /\ \A c \in ReconnectCalls : stage[c] = "rejected")
    => Cardinality(ReconnectCalls) <= options.reconnectAttempts

\* C2: a reconnection in progress suppresses further connectivity-lost
\* signals, so at most one establish attempt is in flight at any time.
C2_OneAttemptInFlight ==
  Cardinality({c \in ReconnectCalls : InFlight(c)}) <= 1

\* C3: once an establish attempt of a reconnection has succeeded, the object
\* the caller got from the original call refers to the new transport and
\* channel, not to the stale pair.
C3_HandleFollowsReconnection ==
  \A l \in DOMAIN loops :
    (loops[l].owner = 0 /\ handle[0] # <<>> /\ stage[loops[l].child] = "resolved")
      => handle[0] = handle[loops[l].child]

\* C4: a message is put on a data channel only by a step that finds the
\* channel open, and that step appends this one message; a message let go
\* while the channel was not open therefore never appears on it later.
C4_SendOnlyWhenOpen ==
  [][\A c \in Calls :
       wire'[c] # wire[c]
         => /\ readyState[c] = "open"
            /\ Len(wire'[c]) = Len(wire[c]) + 1
            /\ SubSeq(wire'[c], 1, Len(wire[c])) = wire[c]]_vars

\* C4, witness: a message was let go on channel 0 while it was not open, the
\* channel opened, and the one message on it is the one sent since.
C4_DroppedThenSent ==
  /\ dropped
  /\ NextCall = 1
  /\ readyState[0] = "open"
  /\ Len(wire[0]) = 1

\* The caller has closed the session.
Closed == handle[0] # <<>> /\ iceState[0] = "closed"

\* C5: once the session is closed no quality sample is recorded and the
\* optimizer is not invoked any more.
C5_NoSampleAfterClose ==
  [][Closed => (monitor'[0] = monitor[0] /\ performance'[0] = performance[0])]_vars

\* C6: every recorded quality score lies in [0, 1].
C6_ScoreInUnitInterval ==
  \A c \in Calls :
    \A i \in DOMAIN monitor[c].connectionQuality :
      LET score == monitor[c].connectionQuality[i].score
      IN 0 <= score.num /\ score.num <= score.den

\* C7: after a non-2xx response of the signaling endpoint the call does not
\* get to resolve with its observers attached.
C7_ErrorResponseFailsEstablish ==
  [][\A c \in Calls :
       (stage[c] = "setRemoteDescription" /\ stage'[c] = "resolved")
         => Ok(response[c])]_vars

\* Where an establishment failure throws: lines 29-49, 55 and 61-62.
EstablishErrors == {"negotiate", "setRemoteDescription", "processAudioStream"}

C9_HandledInOrderWithSample ==
  \A c \in Calls :
    obs[c].latency
      => /\ handled[c] = delivered[c]
         /\ monitor[c].responseLatency = delivered[c]

\* C10: with no handler registered when the wrapper was installed, a message
\* raises no error and its latency sample is still recorded.
C10_AbsentHandlerTolerated ==
  \A c \in Calls :
    obs[c].latency
      => /\ uncaught[c] = 0
         /\ Len(monitor[c].responseLatency) = Len(delivered[c])

\* C11: an error thrown while a message is handled does not leave the wrapper
\* towards the transport's delivery, and every message delivered after the
\* first one still reaches the handler.
C11_FaultIsolated ==
  \A c \in Calls :
    /\ uncaught[c] = 0
    /\ \A i \in DOMAIN delivered[c] :
         i > 1 => \E j \in DOMAIN handled[c] : handled[c][j] = delivered[c][i]

\* The heartbeat timers whose tick sends: installed by a call that resolved,
\* and their channel open.
HeartbeatSenders ==
  {c \in Calls : stage[c] = "resolved" /\ obs[c].heartbeat /\ readyState[c] = "open"}

\* C12: a session sends one heartbeat per interval, also after reconnections:
\* at most one heartbeat timer finds an open channel to send on.
C12_OneHeartbeatPerInterval == Cardinality(HeartbeatSenders) <= 1

\* C13: with heartbeatInterval zero no call installs the heartbeat timer and
\* no heartbeat is put on any channel, whatever reconnections took place.
C13_NoHeartbeatWhenZero ==
  options.heartbeatInterval = 0
    => \A c \in Calls :
         /\ ~obs[c].heartbeat
         /\ \A i \in DOMAIN wire[c] : wire[c][i] # "heartbeat"

\* C13, witness: heartbeatInterval is zero, a call made by a reconnection loop
\* has resolved with the same options, and its open channel carries a message.
C13_ReconnectedWithoutHeartbeat ==
  /\ options.heartbeatInterval = 0
  /\ stage[1] = "resolved"
  /\ readyState[1] = "open"
  /\ Len(wire[1]) = 1

\* C14: the attempt counter starts at 0, the wait after the i-th failed
\* attempt is i times the base delay, a loop makes reconnectAttempts attempts
\* when all fail, and when it has run out the session is closed.
C14_LinearBackoffThenClosed ==
  \A l \in DOMAIN loops :
    stage[loops[l].owner] = "resolved"
      => /\ loops[l].phase = "backoff"
              => loops[l].delay = loops[l].attempts * BaseDelay
         /\ loops[l].phase = "exhausted"
              => /\ loops[l].attempts = options.reconnectAttempts
                 /\ iceState[loops[l].owner] = "closed"

\* The pairs with observers at work: the call resolved, so its sampler timer,
\* wrappers and subscriptions are installed, and its transport is not closed.
LivePairs ==
  {c \in Calls : stage[c] = "resolved" /\ obs[c].sampler /\ iceState[c] # "closed"}

\* C15: at most one transport/channel pair of the session is live.
C15_AtMostOneLivePair == Cardinality(LivePairs) <= 1

\* C16: setVADEnabled is called only with concurrent processing enabled, and
\* its argument is true exactly when the recomputed qualityThreshold is above
\* 0.7; with concurrent processing disabled no tick touches the setting.
C16_VadFollowsThreshold ==
  \A c \in Calls :
    vad[c] # <<>>
      => /\ options.enableConcurrentProcessing
         /\ vad[c][1].enabled <=> vad[c][1].qualityThreshold > VadThreshold

\* C16, witness: a tick of call 0 recomputed a qualityThreshold of exactly 0.7
\* and the setting was written with it.
C16_VadSetAtThreshold ==
  /\ vad[0] # <<>>
  /\ vad[0][1].qualityThreshold = 7
  /\ Len(performance[0]) >= 1

\* C17: a loop waits for a backoff delay only after an establish attempt that
\* failed: the first attempt that succeeds ends the reconnection.
C17_SuccessEndsReconnection ==
  \A l \in DOMAIN loops :
    stage[loops[l].child] = "resolved" => loops[l].phase \notin {"backoff", "exhausted"}

\* C18: the connectionQuality samples of a call are in tick order, and each
\* sample has its score in the optimizer's record at the same position.
C18_SamplesInTickOrder ==
  \A c \in Calls :
    LET series == monitor[c].connectionQuality
    IN /\ Len(performance[c]) = Len(series)
       /\ \A i \in DOMAIN series : performance[c][i] = series[i].score
       /\ \A i, j \in DOMAIN series : i < j => series[i].tick < series[j].tick

\* C19: with reconnectAttempts zero no call installs the connectivity handler
\* and no establish attempt is made besides the caller's.
C19_NoReconnectionWhenZero ==
  options.reconnectAttempts = 0
    => /\ \A c \in Calls : ~obs[c].reconnect
       /\ ReconnectCalls = {}
       /\ loops = <<>>

\* C19, witness: reconnectAttempts is zero, the session is established and
\* its transport has lost connectivity.
C19_DisconnectedWithoutHandler ==
  /\ options.reconnectAttempts = 0
  /\ stage[0] = "resolved"
  /\ iceState[0] = "disconnected"

\* C20: a loop is started only by a step that takes a transport to
\* "disconnected"; a step that takes a transport to any other connectivity
\* state starts no establish attempt and leaves the calls, the loops and what
\* the calls installed and returned as they were.
C20_OnlyDisconnectedReconnects ==
  [][/\ Len(loops') > Len(loops)
         => \E c \in Calls : iceState[c] # "disconnected"
                             /\ iceState'[c] = "disconnected"
     /\ \A c \in Calls :
          (iceState'[c] # iceState[c] /\ iceState'[c] # "disconnected")
            => UNCHANGED <<stage, error, response, obs, handle, loops>>]_vars

\* C20, witness: the handler of call 0 is installed, its transport lost
\* connectivity once and is connected again, and one loop was started.
C20_ConnectedAgain ==
  /\ obs[0].reconnect
  /\ stage[0] = "resolved"
  /\ iceState[0] = "connected"
  /\ Len(loops) = 1

====
